---- MODULE Spec2Model ----
(***************************************************************************)
(* Model of news-search: the query builders, the searchNews orchestrator   *)
(* (news lookup, conditional post lookup, local engagement ranking) and    *)
(* the CLI action that drives it and sets the process exit code.           *)
(*                                                                         *)
(* JavaScript runs each async function atomically between two awaits, so   *)
(* every action below is one such run: from a resumption point up to the   *)
(* next await (or to the end of the process).                              *)
(***************************************************************************)
EXTENDS Integers, Sequences, FiniteSets, TLC

VARIABLES
    env,            \* process.env.X_API_KEY ("" when absent)
    opts,           \* the options commander hands to the action
    pc,             \* position of the control flow
    exitCode,       \* process exit code (-1 while the process runs)
    clientCreated,  \* createClient has been called
    params,         \* the SearchParams built by the action
    newsCalls,      \* invocations of client.news.search
    postCalls,      \* invocations of client.posts.searchRecent
    inflight,       \* endpoint calls awaiting their outcome
    newsArgs,       \* arguments of the news call
    postArgs,       \* arguments of the post call
    newsOutcome,    \* how the news call settled
    postOutcome,    \* how the post call settled
    news,           \* searchNews: const news
    posts,          \* searchNews: const posts
    errors,         \* searchNews: const errors
    result,         \* what searchNews handed back to its caller
    stdout,         \* lines written with console.log
    stderr,         \* lines written with console.error
    terms,          \* query builder harness: the term list
    lang,           \* query builder harness: the language code
    raw,            \* query builder harness: the raw flag
    built,          \* query builder harness: the strings built
    wrapWords,      \* wordWrap harness: the words of the text
    wrapWidth,      \* wordWrap harness: the width
    wrapped         \* wordWrap harness: the lines returned

vars == <<env, opts, pc, exitCode, clientCreated, params, newsCalls, postCalls,
          inflight, newsArgs, postArgs, newsOutcome, postOutcome, news, posts,
          errors, result, stdout, stderr, terms, lang, raw, built,
          wrapWords, wrapWidth, wrapped>>

cliVars == <<env, opts, pc, exitCode, clientCreated, params, newsCalls,
             postCalls, inflight, newsArgs, postArgs, newsOutcome,
             postOutcome, news, posts, errors, result, stdout, stderr>>

builderVars == <<terms, lang, raw, built>>

wrapVars == <<wrapWords, wrapWidth, wrapped>>

-----------------------------------------------------------------------------
(* Bounds                                                                  *)

MaxStories == 2     \* stories in one news response
MaxPosts == 3       \* posts in one post response
MaxApiErrors == 1   \* entries of a response's errors payload
MaxTerms == 3       \* terms handed to the query builders
MaxWords == 3       \* words of a text handed to wordWrap
MaxWidth == 5       \* widths handed to wordWrap

-----------------------------------------------------------------------------
(* JavaScript helpers                                                      *)

\* a ?? d on an optional field of an object
Get(r, f, d) == IF f \in DOMAIN r THEN r[f] ELSE d

Has(r, f) == f \in DOMAIN r

SeqsUpTo(S, n) == UNION {[1..k -> S] : k \in 0..n}

RECURSIVE Join(_, _)
\* Array.prototype.join
Join(seq, sep) ==
    IF Len(seq) = 0 THEN ""
    ELSE IF Len(seq) = 1 THEN seq[1]
    ELSE seq[1] \o sep \o Join(Tail(seq), sep)

-----------------------------------------------------------------------------
(* Query builder                                                           *)

Paren(q) == "(" \o q \o ")"

\* queries.map((q) => `(${q})`)
ParenAll(queries) == [i \in 1..Len(queries) |-> Paren(queries[i])]

Filters(lng) ==
    <<"-is:retweet", "-is:reply", "has:links", "-is:nullcast", "lang:" \o lng>>

\* a builder that parenthesises a single term too
CombinedAlwaysParen(queries) == Join(ParenAll(queries), " OR ")

Combined(queries) ==
    IF Len(queries) = 1 THEN queries[1] ELSE Join(ParenAll(queries), " OR ")

buildPostQuery(queries, lng, rw) ==
    IF rw THEN Combined(queries)
    ELSE Combined(queries) \o " " \o Join(Filters(lng), " ")

buildNewsQuery(queries) == Join(queries, " OR ")

-----------------------------------------------------------------------------
(* Values thrown by a failing call, and the message the catch clauses      *)
(* print: err?.message ?? String(err)                                      *)

Thrown == {[message |-> "ETIMEDOUT"], [primitive |-> "boom"]}

TypeErrorUndefined ==
    [message |-> "Cannot read properties of undefined (reading 'errors')"]

RangeErrorInvalidTime == [message |-> "Invalid time value"]

NoError == [none |-> TRUE]

ErrText(err) == IF Has(err, "message") THEN err.message ELSE err.primitive

-----------------------------------------------------------------------------
(* The endpoint responses                                                  *)

ApiErrorObjs == {[title |-> "Rate limit"]}

JSONStringify(e) == "{\"title\":\"" \o e.title \o "\"}"

\* what a response may carry in its errors field: nothing, or a list
ErrorsParts ==
    {[tag |-> "r"]} \cup
    {[tag |-> "r", errors |-> s] : s \in SeqsUpTo(ApiErrorObjs, MaxApiErrors)}

\* lastUpdatedAtMs values that denote a time the Date range holds
ValidTimes == {"1700000000000"}

\* new Date(Number(ms)).toISOString() for the valid times
ISOString(ms) == IF ms = "1700000000000" THEN "2023-11-14T22:13:20.000Z" ELSE ""

Stories ==
    { [restId |-> "n1", name |-> "Gold rallies", summary |-> "Gold is up",
       hook |-> "Why", category |-> "Business", keywords |-> <<"gold", "xau">>,
       lastUpdatedAtMs |-> "1700000000000"],
      [restId |-> "n2"],
      [restId |-> "n3", name |-> "Silver slips", lastUpdatedAtMs |-> "soon"] }

NewsBodies ==
    ErrorsParts \cup
    {e @@ [data |-> d] : e \in ErrorsParts, d \in SeqsUpTo(Stories, MaxStories)}

NewsOutcomes ==
    {[kind |-> "throws", err |-> e] : e \in Thrown} \cup
    {[kind |-> "undefined"]} \cup
    {[kind |-> "response", body |-> b] : b \in NewsBodies}

Users == <<[id |-> "u1", name |-> "Ann", username |-> "ann", verified |-> TRUE],
           [id |-> "u2", name |-> "Bob", username |-> "bob"]>>

IncludesParts == {[tag |-> "r"], [tag |-> "r", includes |-> [users |-> Users]]}

\* the tweets an answer is made of; the id is added per position
TweetKinds ==
    { [text |-> "gold up", authorId |-> "u1", createdAt |-> "2023-11-14",
       publicMetrics |-> [like_count |-> 1, reply_count |-> 1]],
      [authorId |-> "u9", publicMetrics |-> [retweet_count |-> 1]],
      [text |-> "silver", authorId |-> "u2"] }

TweetId(i) == "t" \o ToString(i)

WithIds(ks) == [i \in 1..Len(ks) |-> ks[i] @@ [id |-> TweetId(i)]]

PostBodies ==
    {e @@ i : e \in ErrorsParts, i \in IncludesParts} \cup
    {e @@ i @@ [data |-> WithIds(ks)] :
        e \in ErrorsParts, i \in IncludesParts,
        ks \in SeqsUpTo(TweetKinds, MaxPosts)}

PostOutcomes ==
    {[kind |-> "throws", err |-> e] : e \in Thrown} \cup
    {[kind |-> "undefined"]} \cup
    {[kind |-> "response", body |-> b] : b \in PostBodies}

Pending == [kind |-> "pending"]

-----------------------------------------------------------------------------
(* searchNews, step 1: the news lookup                                     *)

\* the object pushed for one story; the caller has checked the timestamp
NewsResult(story) ==
    [id |-> Get(story, "restId", ""),
     headline |-> Get(story, "name", ""),
     summary |-> Get(story, "summary", ""),
     hook |-> Get(story, "hook", ""),
     category |-> Get(story, "category", ""),
     keywords |-> Get(story, "keywords", <<>>),
     updatedAt |-> IF Get(story, "lastUpdatedAtMs", "") # ""
                   THEN ISOString(story.lastUpdatedAtMs) ELSE ""]

\* toISOString throws a RangeError on a time value that is not finite
StoryThrows(story) ==
    /\ Get(story, "lastUpdatedAtMs", "") # ""
    /\ story.lastUpdatedAtMs \notin ValidTimes

RECURSIVE PushStories(_, _)
\* for (const story of newsResponse.data) news.push(...), up to a throw
PushStories(data, acc) ==
    IF Len(data) = 0 THEN [news |-> acc, thrown |-> NoError]
    ELSE IF StoryThrows(Head(data))
         THEN [news |-> acc, thrown |-> RangeErrorInvalidTime]
         ELSE PushStories(Tail(data), Append(acc, NewsResult(Head(data))))

\* if (response.errors && response.errors.length > 0)
\*   for (const err of response.errors) errors.push(`${label}: ...`)
ApiErrorStrings(body, label) ==
    IF Has(body, "errors") /\ Len(body.errors) > 0
    THEN [i \in 1..Len(body.errors) |->
             label \o ": " \o JSONStringify(body.errors[i])]
    ELSE <<>>

\* the try block of step 1
NewsTry(outcome) ==
    IF outcome.kind = "throws"
    THEN [news |-> <<>>, errors |-> <<>>, thrown |-> outcome.err]
    ELSE IF outcome.kind = "undefined"
    THEN [news |-> <<>>, errors |-> <<>>, thrown |-> TypeErrorUndefined]
    ELSE LET body == outcome.body
             pushed == IF Has(body, "data")
                       THEN PushStories(body.data, <<>>)
                       ELSE [news |-> <<>>, thrown |-> NoError]
         IN [news |-> pushed.news,
             errors |-> ApiErrorStrings(body, "News API error"),
             thrown |-> pushed.thrown]

NewsFailed(err) ==
    "News search failed: " \o ErrText(err) \o ". Falling back to post search."

\* a step 1 without its catch clause: the failure leaves searchNews
NewsCatchRethrow(t) ==
    [news |-> t.news, errors |-> t.errors, raised |-> t.thrown]

\* the catch clause of step 1
NewsCatch(t) ==
    [news |-> t.news, errors |-> Append(t.errors, NewsFailed(t.thrown)),
     raised |-> NoError]

\* a step 1 that reports an empty answer as an error
NewsStepEmptyIsError(outcome) ==
    LET t == NewsTry(outcome)
    IN IF t.thrown # NoError THEN NewsCatch(t)
       ELSE IF Len(t.news) = 0
       THEN [news |-> t.news,
             errors |-> Append(t.errors, "No news stories found."),
             raised |-> NoError]
       ELSE [news |-> t.news, errors |-> t.errors, raised |-> NoError]

NewsStep(outcome) ==
    LET t == NewsTry(outcome)
    IN IF t.thrown = NoError
       THEN [news |-> t.news, errors |-> t.errors, raised |-> NoError]
       ELSE NewsCatch(t)

-----------------------------------------------------------------------------
(* searchNews, step 2: the conditional post lookup                         *)

\* a step 2 that runs on the flag alone, without the fallback
ShouldSearchPostsFlagOnly(p, nws) == p.posts

\* if (params.posts || news.length === 0)
ShouldSearchPosts(p, nws) == p.posts \/ Len(nws) = 0

RECURSIVE UserMap(_, _)
\* userMap.set(user.id, ...) for every included user, later entries win
UserMap(users, acc) ==
    IF Len(users) = 0 THEN acc
    ELSE LET u == Head(users)
             entry == [name |-> u.name, username |-> u.username,
                       verified |-> Get(u, "verified", FALSE)]
         IN UserMap(Tail(users),
                    [k \in DOMAIN acc \cup {u.id} |->
                        IF k = u.id THEN entry ELSE acc[k]])

NoUsers == [k \in {} |-> k]

IncludedUsers(body) ==
    IF Has(body, "includes") /\ Has(body.includes, "users")
    THEN UserMap(body.includes.users, NoUsers) ELSE NoUsers

PostResult(tweet, userMap) ==
    LET tweetId == Get(tweet, "id", "")
        authorId == Get(tweet, "authorId", "")
        known == authorId \in DOMAIN userMap
        metrics == Get(tweet, "publicMetrics", [tag |-> "m"])
    IN [id |-> tweetId,
        text |-> Get(tweet, "text", ""),
        authorId |-> authorId,
        authorName |-> IF known THEN userMap[authorId].name ELSE "",
        authorUsername |-> IF known THEN userMap[authorId].username ELSE "",
        verified |-> IF known THEN userMap[authorId].verified ELSE FALSE,
        createdAt |-> Get(tweet, "createdAt", ""),
        likes |-> Get(metrics, "like_count", 0),
        reposts |-> Get(metrics, "retweet_count", 0),
        replies |-> Get(metrics, "reply_count", 0),
        url |-> IF known /\ userMap[authorId].username # ""
                THEN "https://x.com/" \o userMap[authorId].username
                         \o "/status/" \o tweetId
                ELSE "https://x.com/i/status/" \o tweetId]

Score(p) == p.likes * 2 + p.reposts * 3 + p.replies

\* the comparator of posts.sort: negative keeps a before b
Compare(a, b) == Score(b) - Score(a)

RECURSIVE InsertBeforeTies(_, _)
\* an insertion that puts a post before the posts of equal score
InsertBeforeTies(x, sorted) ==
    IF Len(sorted) = 0 THEN <<x>>
    ELSE IF Compare(Head(sorted), x) < 0
         THEN <<Head(sorted)>> \o InsertBeforeTies(x, Tail(sorted))
         ELSE <<x>> \o sorted

RECURSIVE Insert(_, _)
Insert(x, sorted) ==
    IF Len(sorted) = 0 THEN <<x>>
    ELSE IF Compare(Head(sorted), x) <= 0
         THEN <<Head(sorted)>> \o Insert(x, Tail(sorted))
         ELSE <<x>> \o sorted

RECURSIVE SortPosts(_)
\* Array.prototype.sort with the comparator: a stable sort (ES2019)
SortPosts(ps) ==
    IF Len(ps) = 0 THEN <<>>
    ELSE Insert(ps[Len(ps)], SortPosts(SubSeq(ps, 1, Len(ps) - 1)))

\* the try block of step 2
PostTry(outcome) ==
    IF outcome.kind = "throws"
    THEN [posts |-> <<>>, errors |-> <<>>, thrown |-> outcome.err]
    ELSE IF outcome.kind = "undefined"
    THEN [posts |-> <<>>, errors |-> <<>>, thrown |-> TypeErrorUndefined]
    ELSE LET body == outcome.body
             userMap == IncludedUsers(body)
         IN [posts |-> IF Has(body, "data")
                       THEN SortPosts([i \in 1..Len(body.data) |->
                                        PostResult(body.data[i], userMap)])
                       ELSE <<>>,
             errors |-> ApiErrorStrings(body, "Posts API error"),
             thrown |-> NoError]

PostFailed(err) == "Post search failed: " \o ErrText(err)

\* a step 2 whose catch clause records nothing
PostCatchSilent(t) ==
    [posts |-> t.posts, errors |-> t.errors, raised |-> NoError]

\* the catch clause of step 2
PostCatch(t) ==
    [posts |-> t.posts, errors |-> Append(t.errors, PostFailed(t.thrown)),
     raised |-> NoError]

PostStep(outcome) ==
    LET t == PostTry(outcome)
    IN IF t.thrown = NoError
       THEN [posts |-> t.posts, errors |-> t.errors, raised |-> NoError]
       ELSE PostCatch(t)

\* return { query: queryLabel, news, posts, errors }
SearchOutput(p, nws, pst, errs) ==
    [kind |-> "returned", query |-> Join(p.queries, " + "),
     news |-> nws, posts |-> pst, errors |-> errs]

Rejected(err) == [kind |-> "rejected", err |-> err]

-----------------------------------------------------------------------------
(* The CLI                                                                 *)

Min(a, b) == IF a < b THEN a ELSE b

Max(a, b) == IF a > b THEN a ELSE b

Digits == [s \in {"0", "3", "9", "10", "500"} |->
             CASE s = "0" -> 0 [] s = "3" -> 3 [] s = "9" -> 9
               [] s = "10" -> 10 [] s = "500" -> 500]

\* parseInt(s, 10) || dflt: NaN and 0 are falsy
ParseIntOr(s, dflt) ==
    IF s \in DOMAIN Digits /\ Digits[s] # 0 THEN Digits[s] ELSE dflt

\* Math.min(hi, Math.max(lo, parseInt(s, 10) || dflt))
Clamp(lo, hi, s, dflt) == Min(hi, Max(lo, ParseIntOr(s, dflt)))

DefaultOpts ==
    [search |-> <<>>, days |-> "1", max |-> "10", lang |-> "en",
     raw |-> FALSE, posts |-> FALSE, json |-> FALSE]

\* the command lines tried
CommandLines ==
    { DefaultOpts,
      [DefaultOpts EXCEPT !.search = <<"gold">>, !.days = "3"],
      [DefaultOpts EXCEPT !.search = <<"gold">>, !.posts = TRUE,
                          !.json = TRUE, !.max = "0"],
      [DefaultOpts EXCEPT !.search = <<"ai news", "Xai">>, !.days = "9",
                          !.max = "500", !.raw = TRUE],
      [DefaultOpts EXCEPT !.search = <<"ai news", "Xai">>, !.days = "week",
                          !.lang = "de", !.posts = TRUE] }

NoParams == [tag |-> "none"]

NoArgs == [tag |-> "none"]

NoResult == [kind |-> "none"]

SearchParams(o) ==
    [queries |-> o.search, days |-> Clamp(1, 7, o.days, 1),
     max |-> Clamp(1, 100, o.max, 10), lang |-> o.lang, raw |-> o.raw,
     posts |-> o.posts]

\* the sections formatOutput emits, by kind
formatOutput(output, json) ==
    IF json THEN <<"json">>
    ELSE <<"header">>
         \o (IF Len(output.news) > 0 THEN <<"news">> ELSE <<>>)
         \o (IF Len(output.posts) > 0 THEN <<"posts">> ELSE <<>>)
         \o (IF Len(output.news) = 0 /\ Len(output.posts) = 0
             THEN <<"no results">> ELSE <<>>)
         \o (IF Len(output.errors) > 0 THEN <<"errors">> ELSE <<>>)
         \o <<"footer">>

\* an exit test that looks at the errors alone
ExitsWithErrorAnyError(output) == Len(output.errors) > 0

\* if (errors.length > 0 && news.length === 0 && posts.length === 0)
ExitsWithError(output) ==
    Len(output.errors) > 0 /\ Len(output.news) = 0 /\ Len(output.posts) = 0

\* the builder harness is idle while the CLI runs
BuilderIdle ==
    /\ terms = <<>>
    /\ lang = "en"
    /\ raw = FALSE
    /\ built = [tag |-> "none"]

\* the wordWrap harness is idle while the CLI or the builders run
WrapIdle ==
    /\ wrapWords = <<>>
    /\ wrapWidth = 0
    /\ wrapped = [tag |-> "none"]

Init ==
    /\ env \in {"", "token"}
    /\ opts \in CommandLines
    /\ pc = "start"
    /\ exitCode = -1
    /\ clientCreated = FALSE
    /\ params = NoParams
    /\ newsCalls = 0
    /\ postCalls = 0
    /\ inflight = {}
    /\ newsArgs = NoArgs
    /\ postArgs = NoArgs
    /\ newsOutcome = Pending
    /\ postOutcome = Pending
    /\ news = <<>>
    /\ posts = <<>>
    /\ errors = <<>>
    /\ result = NoResult
    /\ stdout = <<>>
    /\ stderr = <<>>
    /\ BuilderIdle
    /\ WrapIdle

\* the key check alone: the term list is passed on unchecked
ConfigErrorKeyOnly(key, o) ==
    IF key = "" THEN "Error: X_API_KEY not found." ELSE ""

\* the two validations of the action, in order; "" when both pass
ConfigError(key, o) ==
    IF key = "" THEN "Error: X_API_KEY not found."
    ELSE IF Len(o.search) = 0
    THEN "Error: At least one --search query is required."
    ELSE ""

\* program.action up to its first await: the checks, createClient and the
\* start of searchNews up to await client.news.search(...)
ActionStart ==
    /\ pc = "start"
    /\ IF ConfigError(env, opts) # ""
       THEN /\ stderr' = Append(stderr, ConfigError(env, opts))
            /\ exitCode' = 1
            /\ pc' = "exited"
            /\ UNCHANGED <<clientCreated, params, newsCalls, inflight, newsArgs>>
       ELSE /\ params' = SearchParams(opts)
            /\ clientCreated' = TRUE
            /\ newsArgs' = [query |-> buildNewsQuery(params'.queries),
                            maxResults |-> params'.max,
                            maxAgeHours |-> params'.days * 24]
            /\ newsCalls' = newsCalls + 1
            /\ inflight' = inflight \cup {"news"}
            /\ pc' = "awaitNews"
            /\ UNCHANGED <<stderr, exitCode>>
    /\ UNCHANGED <<env, opts, postCalls, postArgs, newsOutcome, postOutcome,
                   news, posts, errors, result, stdout>>
    /\ UNCHANGED builderVars
    /\ UNCHANGED wrapVars

\* searchNews from the settlement of the news call: the rest of step 1, the
\* decision of step 2 and either the post call or the return
NewsSettled ==
    /\ pc = "awaitNews"
    /\ \E outcome \in NewsOutcomes :
        LET step == NewsStep(outcome)
        IN /\ newsOutcome' = outcome
           /\ news' = step.news
           /\ errors' = errors \o step.errors
           /\ IF step.raised # NoError
              THEN /\ result' = Rejected(step.raised)
                   /\ inflight' = inflight \ {"news"}
                   /\ pc' = "settled"
                   /\ UNCHANGED <<postCalls, postArgs>>
              ELSE IF ShouldSearchPosts(params, news')
              THEN /\ postArgs' = [query |-> buildPostQuery(params.queries,
                                                 params.lang, params.raw),
                                   startDaysAgo |-> params.days,
                                   maxResults |-> params.max,
                                   sortOrder |-> "relevancy"]
                   /\ postCalls' = postCalls + 1
                   /\ inflight' = (inflight \ {"news"}) \cup {"posts"}
                   /\ pc' = "awaitPosts"
                   /\ UNCHANGED result
              ELSE /\ result' = SearchOutput(params, news', posts, errors')
                   /\ inflight' = inflight \ {"news"}
                   /\ pc' = "settled"
                   /\ UNCHANGED <<postCalls, postArgs>>
    /\ UNCHANGED <<env, opts, exitCode, clientCreated, params, newsCalls,
                   newsArgs, postOutcome, posts, stdout, stderr>>
    /\ UNCHANGED builderVars
    /\ UNCHANGED wrapVars

\* a step 2 that calls the endpoint a second time when the call throws
PostSettledRetry ==
    /\ pc = "awaitPosts"
    /\ \E outcome \in PostOutcomes :
        LET step == PostStep(outcome)
        IN /\ postOutcome' = outcome
           /\ IF outcome.kind = "throws" /\ postCalls < 2
              THEN /\ postCalls' = postCalls + 1
                   /\ pc' = "awaitPosts"
                   /\ UNCHANGED <<posts, errors, result, inflight>>
              ELSE /\ posts' = step.posts
                   /\ errors' = errors \o step.errors
                   /\ result' = SearchOutput(params, news, posts', errors')
                   /\ inflight' = inflight \ {"posts"}
                   /\ pc' = "settled"
                   /\ UNCHANGED postCalls
    /\ UNCHANGED <<env, opts, exitCode, clientCreated, params, newsCalls,
                   newsArgs, postArgs, newsOutcome, news, stdout, stderr>>
    /\ UNCHANGED builderVars
    /\ UNCHANGED wrapVars

\* searchNews from the settlement of the post call to its return
PostSettled ==
    /\ pc = "awaitPosts"
    /\ \E outcome \in PostOutcomes :
        LET step == PostStep(outcome)
        IN /\ postOutcome' = outcome
           /\ posts' = step.posts
           /\ errors' = errors \o step.errors
           /\ result' = IF step.raised # NoError THEN Rejected(step.raised)
                        ELSE SearchOutput(params, news, posts', errors')
    /\ inflight' = inflight \ {"posts"}
    /\ pc' = "settled"
    /\ UNCHANGED <<env, opts, exitCode, clientCreated, params, newsCalls,
                   postCalls, newsArgs, postArgs, newsOutcome, news, stdout,
                   stderr>>
    /\ UNCHANGED builderVars
    /\ UNCHANGED wrapVars

\* program.action from the settlement of searchNews: formatOutput,
\* console.log, the exit test and the catch clause; fails stands for an
\* unexpected exception of formatOutput or console.log
ActionResume ==
    /\ pc = "settled"
    /\ \E fails \in BOOLEAN :
        IF result.kind = "rejected"
        THEN /\ stderr' = Append(stderr, "Fatal error: " \o ErrText(result.err))
             /\ exitCode' = 1
             /\ UNCHANGED stdout
        ELSE IF fails
        THEN /\ stderr' = Append(stderr, "Fatal error: unexpected")
             /\ exitCode' = 1
             /\ UNCHANGED stdout
        ELSE /\ stdout' = Append(stdout, formatOutput(result, opts.json))
             /\ exitCode' = IF ExitsWithError(result) THEN 1 ELSE 0
             /\ UNCHANGED stderr
    /\ pc' = "exited"
    /\ UNCHANGED <<env, opts, clientCreated, params, newsCalls, postCalls,
                   inflight, newsArgs, postArgs, newsOutcome, postOutcome,
                   news, posts, errors, result>>
    /\ UNCHANGED builderVars
    /\ UNCHANGED wrapVars

Next == ActionStart \/ NewsSettled \/ PostSettled \/ ActionResume

Spec == Init /\ [][Next]_vars

-----------------------------------------------------------------------------
(* The query builders on their own                                         *)

Terms == {"gold", "ai news", ""}

Langs == {"en", "de"}

NotBuilt == [tag |-> "none"]

BuilderInit ==
    /\ WrapIdle
    /\ terms \in SeqsUpTo(Terms, MaxTerms)
    /\ lang \in Langs
    /\ raw \in BOOLEAN
    /\ built = NotBuilt
    /\ env = ""
    /\ opts = DefaultOpts
    /\ pc = "builder"
    /\ exitCode = -1
    /\ clientCreated = FALSE
    /\ params = NoParams
    /\ newsCalls = 0
    /\ postCalls = 0
    /\ inflight = {}
    /\ newsArgs = NoArgs
    /\ postArgs = NoArgs
    /\ newsOutcome = Pending
    /\ postOutcome = Pending
    /\ news = <<>>
    /\ posts = <<>>
    /\ errors = <<>>
    /\ result = NoResult
    /\ stdout = <<>>
    /\ stderr = <<>>

Build ==
    /\ pc = "builder"
    /\ built = NotBuilt
    /\ built' = [tag |-> "built",
                 post |-> buildPostQuery(terms, lang, raw),
                 news |-> buildNewsQuery(terms)]
    /\ UNCHANGED <<terms, lang, raw>>
    /\ UNCHANGED cliVars
    /\ UNCHANGED wrapVars

BuilderNext == Build

BuilderSpec == BuilderInit /\ [][BuilderNext]_vars

-----------------------------------------------------------------------------
(* wordWrap on its own                                                     *)

RECURSIVE WrapLoop(_, _, _, _)
\* the for loop of wordWrap over the remaining words, then the final push
WrapLoop(words, width, lines, current) ==
    IF Len(words) = 0
    THEN IF current # "" THEN Append(lines, current) ELSE lines
    ELSE LET word == Head(words)
         IN IF Len(current) + Len(word) + 1 > width
            THEN WrapLoop(Tail(words), width, Append(lines, current), word)
            ELSE WrapLoop(Tail(words), width, lines,
                          IF current # "" THEN current \o " " \o word
                          ELSE word)

\* wordWrap(text, width), words being text.split(/\s+/)
wordWrap(words, width) == WrapLoop(words, width, <<>>, "")

\* the non-empty words a text is made of
Words == {"a", "bb", "dddd"}

NotWrapped == [tag |-> "none"]

WrapInit ==
    /\ wrapWords \in SeqsUpTo(Words, MaxWords) \ {<<>>}
    /\ wrapWidth \in 1..MaxWidth
    /\ wrapped = NotWrapped
    /\ BuilderIdle
    /\ env = ""
    /\ opts = DefaultOpts
    /\ pc = "wrap"
    /\ exitCode = -1
    /\ clientCreated = FALSE
    /\ params = NoParams
    /\ newsCalls = 0
    /\ postCalls = 0
    /\ inflight = {}
    /\ newsArgs = NoArgs
    /\ postArgs = NoArgs
    /\ newsOutcome = Pending
    /\ postOutcome = Pending
    /\ news = <<>>
    /\ posts = <<>>
    /\ errors = <<>>
    /\ result = NoResult
    /\ stdout = <<>>
    /\ stderr = <<>>

Wrap ==
    /\ pc = "wrap"
    /\ wrapped = NotWrapped
    /\ wrapped' = [tag |-> "wrapped", lines |-> wordWrap(wrapWords, wrapWidth)]
    /\ UNCHANGED <<wrapWords, wrapWidth>>
    /\ UNCHANGED cliVars
    /\ UNCHANGED builderVars

WrapNext == Wrap

WrapSpec == WrapInit /\ [][WrapNext]_vars

-----------------------------------------------------------------------------
(* Properties                                                              *)

NewsEnded == newsOutcome.kind # "pending"

PostEnded == postOutcome.kind # "pending"

Returned == result.kind = "returned"

\* the stories of the news answer ([] when there is none)
StoriesOf(o) ==
    IF o.kind = "response" /\ Has(o.body, "data") THEN o.body.data ELSE <<>>

TweetsOf(o) ==
    IF o.kind = "response" /\ Has(o.body, "data") THEN o.body.data ELSE <<>>

BadStories(o) == {i \in 1..Len(StoriesOf(o)) : StoryThrows(StoriesOf(o)[i])}

\* the number of stories normalised before step 1 stopped
StoriesObtained(o) ==
    IF BadStories(o) = {} THEN Len(StoriesOf(o))
    ELSE (CHOOSE i \in BadStories(o) : \A j \in BadStories(o) : i <= j) - 1

\* the value caught by the catch clause of a step, NoError when none
CaughtIn(o) ==
    IF o.kind = "throws" THEN o.err
    ELSE IF o.kind = "undefined" THEN TypeErrorUndefined
    ELSE IF o.kind = "response" /\ BadStories(o) # {} THEN RangeErrorInvalidTime
    ELSE NoError

CarriesErrors(o) ==
    o.kind = "response" /\ Has(o.body, "errors") /\ Len(o.body.errors) > 0

Mentions(prefix, e) ==
    \E x \in Thrown \cup {TypeErrorUndefined, RangeErrorInvalidTime} :
        \/ prefix = "news" /\ e = NewsFailed(x)
        \/ prefix = "post" /\ e = PostFailed(x)

NewsFailureEntries == {i \in 1..Len(errors) : Mentions("news", errors[i])}

PostFailureEntries == {i \in 1..Len(errors) : Mentions("post", errors[i])}

IsPrefix(a, b) == Len(a) <= Len(b) /\ SubSeq(b, 1, Len(a)) = a

\* C1: once the news step has ended, the post endpoint has been invoked if
\* and only if params.posts is set or the news list is empty; before the
\* news step ends it has not been invoked.
C1_PostSearchIffFlagOrNoNews ==
    /\ ~NewsEnded => postCalls = 0
    /\ NewsEnded => ((postCalls > 0) <=> (params.posts \/ Len(news) = 0))

C1_Witness ==
    /\ newsOutcome.kind = "response"
    /\ ~params.posts
    /\ Len(news) = 0
    /\ postCalls = 1
    /\ pc = "awaitPosts"

\* C2: searchNews never rejects; once it has ended it has returned the
\* accumulated query label, news, posts and errors, every failure caught in
\* a step is an entry of errors, and the stories normalised before a
\* failure are returned.
C2_NeverRaises ==
    /\ result.kind # "rejected"
    /\ pc = "settled" =>
        /\ Returned
        /\ result.news = news /\ result.posts = posts /\ result.errors = errors
        /\ Len(result.news) = StoriesObtained(newsOutcome)
        /\ \A i \in 1..Len(result.news) :
              result.news[i].id = StoriesOf(newsOutcome)[i].restId
        /\ CaughtIn(newsOutcome) # NoError =>
              \E i \in 1..Len(result.errors) :
                  result.errors[i] = NewsFailed(CaughtIn(newsOutcome))
        /\ CaughtIn(postOutcome) # NoError =>
              \E i \in 1..Len(result.errors) :
                  result.errors[i] = PostFailed(CaughtIn(postOutcome))

C2_Witness ==
    /\ pc = "settled"
    /\ Returned
    /\ newsOutcome.kind = "response" /\ BadStories(newsOutcome) # {}
    /\ Len(result.news) = 1
    /\ postOutcome.kind = "throws"
    /\ Len(result.errors) = 2

\* C3 (as claimed): whenever the news step ended in its catch clause, the
\* post endpoint is invoked, whatever params.posts, and exactly one entry of
\* errors mentions the news failure.
C3_CatchAlwaysFallsBack ==
    (NewsEnded /\ NewsFailureEntries # {}) =>
        /\ postCalls = 1
        /\ Cardinality(NewsFailureEntries) = 1

\* C4: each endpoint is called at most once, the two calls are never in
\* flight together, and the post call starts only after the news call has
\* settled.
C4_AtMostOnceAndSequential ==
    /\ newsCalls <= 1
    /\ postCalls <= 1
    /\ Cardinality(inflight) <= 1
    /\ postCalls > 0 => (NewsEnded /\ "news" \notin inflight)
    /\ "posts" \in inflight => postCalls = 1

C4_Witness ==
    /\ pc = "settled"
    /\ newsOutcome.kind = "throws"
    /\ postOutcome.kind = "throws"
    /\ newsCalls = 1
    /\ postCalls = 1

\* C5: the step that ends the post lookup leaves news as the news step left
\* it and returns it; it keeps the errors of the news step as a prefix, and
\* a failure of the post lookup appends one 'Post search failed' string
\* after them. When the post lookup is skipped the news of the news step
\* are returned as they are.
C5_PostStepKeepsNews ==
    [][ /\ pc = "awaitPosts" =>
            /\ news' = news
            /\ result'.kind = "returned" /\ result'.news = news
            /\ IsPrefix(errors, errors')
            /\ CaughtIn(postOutcome') # NoError =>
                  errors' = Append(errors, PostFailed(CaughtIn(postOutcome')))
        /\ (pc = "awaitNews" /\ pc' = "settled") =>
            (result'.kind = "returned" /\ result'.news = news')
        /\ pc = "settled" => (news' = news /\ result' = result)
      ]_vars

C5_Witness ==
    /\ pc = "settled"
    /\ Len(news) = 2
    /\ CarriesErrors(newsOutcome)
    /\ postOutcome.kind = "throws"
    /\ Len(errors) = 2
    /\ Mentions("post", errors[2])

\* C6: errors is non-empty only if a response carried a non-empty errors
\* payload or a step threw; an empty result adds no error.
C6_ErrorsOnlyFromFailures ==
    Len(errors) > 0 =>
        \/ CarriesErrors(newsOutcome)
        \/ CarriesErrors(postOutcome)
        \/ CaughtIn(newsOutcome) # NoError
        \/ CaughtIn(postOutcome) # NoError

C6_Witness ==
    /\ pc = "settled"
    /\ newsOutcome.kind = "response" /\ postOutcome.kind = "response"
    /\ Len(news) = 0 /\ Len(posts) = 0
    /\ ~params.posts
    /\ errors = <<>>

\* C7: with the credential and a search term present, the process ends
\* with code 1 exactly when the action's catch clause ran or the result has
\* errors and neither news nor posts; otherwise it ends with code 0.
C7_ExitCode ==
    (pc = "exited" /\ clientCreated) =>
        /\ exitCode \in {0, 1}
        /\ exitCode = 1 <=>
              \/ Len(stderr) > 0
              \/ Len(errors) > 0 /\ Len(news) = 0 /\ Len(posts) = 0

C7_Witness ==
    /\ pc = "exited"
    /\ clientCreated
    /\ Len(errors) > 0
    /\ Len(news) = 0
    /\ Len(posts) > 0
    /\ stderr = <<>>
    /\ exitCode = 0

\* C8: without the credential or without a search term the run ends with
\* code 1, no client is created, no endpoint is invoked and errors stays
\* empty.
C8_ConfigErrorsStopEarly ==
    (env = "" \/ Len(opts.search) = 0) =>
        /\ ~clientCreated
        /\ newsCalls = 0 /\ postCalls = 0 /\ inflight = {}
        /\ errors = <<>> /\ result = NoResult
        /\ pc \in {"start", "exited"}
        /\ pc = "exited" => (exitCode = 1 /\ Len(stderr) = 1)

C8_Witness ==
    /\ pc = "exited"
    /\ env = ""
    /\ Len(opts.search) > 0
    /\ exitCode = 1
    /\ ~clientCreated

\* the place of a returned post in the answer of the post endpoint
PlaceOf(p) ==
    CHOOSE i \in 1..Len(TweetsOf(postOutcome)) : TweetId(i) = p.id

Engagement(p) == 2 * p.likes + 3 * p.reposts + p.replies

\* C9: the returned posts are in non-increasing order of engagement score,
\* posts of equal score are in the order of the endpoint's answer, and they
\* are the normalised posts of the answer, each exactly once.
C9_StableRanking ==
    (PostEnded /\ Returned) =>
        LET data == TweetsOf(postOutcome)
        IN /\ Len(result.posts) = Len(data)
           /\ {result.posts[i].id : i \in 1..Len(result.posts)}
                = {TweetId(i) : i \in 1..Len(data)}
           /\ \A i \in 1..Len(result.posts) :
                LET p == result.posts[i]
                    m == Get(data[PlaceOf(p)], "publicMetrics", [tag |-> "m"])
                IN /\ p.likes = Get(m, "like_count", 0)
                   /\ p.reposts = Get(m, "retweet_count", 0)
                   /\ p.replies = Get(m, "reply_count", 0)
           /\ \A i, j \in 1..Len(result.posts) :
                i < j =>
                  \/ Engagement(result.posts[i]) > Engagement(result.posts[j])
                  \/ /\ Engagement(result.posts[i]) = Engagement(result.posts[j])
                     /\ PlaceOf(result.posts[i]) < PlaceOf(result.posts[j])

C9_Witness ==
    /\ pc = "settled"
    /\ Len(result.posts) = 3
    /\ result.posts[1].id = "t2"
    /\ result.posts[2].id = "t3"
    /\ result.posts[3].id = "t1"
    /\ Engagement(result.posts[1]) = Engagement(result.posts[2])
    /\ Engagement(result.posts[2]) > Engagement(result.posts[3])

RECURSIVE OrList(_, _, _)
\* the first k terms, each wrapped or not, with " OR " between them
OrList(ts, k, wrap) ==
    IF k = 0 THEN ""
    ELSE OrList(ts, k - 1, wrap)
         \o (IF k > 1 THEN " OR " ELSE "")
         \o (IF wrap THEN "(" \o ts[k] \o ")" ELSE ts[k])

ExpectedCombined == IF Len(terms) = 1 THEN terms[1] ELSE OrList(terms, Len(terms), TRUE)

\* C10: buildPostQuery gives the single term verbatim, or every term in
\* parentheses joined by " OR "; in raw mode nothing else, otherwise followed
\* by a space and the five filters in their fixed order. buildNewsQuery gives
\* the terms joined by " OR " without parentheses or filters.
C10_QueryBuilders ==
    built.tag = "built" =>
        /\ built.post =
              IF raw THEN ExpectedCombined
              ELSE ExpectedCombined
                   \o " -is:retweet -is:reply has:links -is:nullcast lang:"
                   \o lang
        /\ built.news = OrList(terms, Len(terms), FALSE)

C10_Witness ==
    /\ built.tag = "built"
    /\ Len(terms) = 1
    /\ ~raw
    /\ built.post = terms[1] \o " -is:retweet -is:reply has:links -is:nullcast lang:de"

\* the length of the line made of the words of g and single spaces
LineLength(g) ==
    IF Len(g) = 0 THEN 0
    ELSE LET RECURSIVE Sum(_)
             Sum(k) == IF k = 0 THEN 0 ELSE Sum(k - 1) + Len(g[k])
         IN Sum(Len(g)) + Len(g) - 1

RECURSIVE Pack(_, _, _, _)
\* greedy packing: word k opens the first line, and opens a new line
\* exactly when it does not fit the current line with its separating space
Pack(ws, k, width, groups) ==
    IF k > Len(ws) THEN groups
    ELSE IF Len(groups) = 0 THEN Pack(ws, k + 1, width, <<<<ws[k]>>>>)
    ELSE LET last == groups[Len(groups)]
         IN IF LineLength(last) + 1 + Len(ws[k]) > width
            THEN Pack(ws, k + 1, width, Append(groups, <<ws[k]>>))
            ELSE Pack(ws, k + 1, width,
                      [groups EXCEPT ![Len(groups)] = Append(last, ws[k])])

\* C11 (as claimed): the lines of wordWrap are the greedy packing of the
\* words: every line is one or more consecutive words joined by single
\* spaces and none is empty, a line is started before a word exactly when
\* the word does not fit the current line with its separating space, and a
\* line longer than the width is a single word.
C11_GreedyWordPacking ==
    wrapped.tag = "wrapped" =>
        LET groups == Pack(wrapWords, 1, wrapWidth, <<>>)
        IN /\ Len(wrapped.lines) = Len(groups)
           /\ \A i \in 1..Len(wrapped.lines) :
                /\ wrapped.lines[i] # ""
                /\ wrapped.lines[i] = Join(groups[i], " ")
                /\ Len(wrapped.lines[i]) > wrapWidth => Len(groups[i]) = 1

====
